---- MODULE Spec2Model ----
(***************************************************************************)
(* A model of salt.utils.jinja.SaltCacheLoader: the template loader that   *)
(* resolves a template name against the importing template's directory,    *)
(* fetches it once through a file client, and reads it from the first      *)
(* search root that has it.                                                *)
(*                                                                         *)
(* Strings are sequences of one-character strings, so that split, join,    *)
(* normpath, dirname and relpath are computed as posixpath computes them.  *)
(***************************************************************************)
EXTENDS Integers, Sequences, FiniteSets, TLC

VARIABLES
    searchpath,         \* self.searchpath: the ordered search roots
    cached,             \* self.cached: the list of fetched template paths
    _file_client,       \* self._file_client: 0 is None, else an index of clients
    _close_file_client, \* self._close_file_client
    opts_file_roots,    \* self.opts["file_roots"]
    entered,            \* the loader is in use as a context manager
    clients,            \* every file client that exists, by identity
    globals,            \* environment.globals of the one jinja environment
    files,              \* the filesystem: file location -> mtime, 0 is "no file"
    fetches,            \* per template path, what each get_file for it returned
    uptodate,           \* the callback the latest successful get_source returned
    calls,              \* number of loader operations performed
    last,               \* what the latest operation did and returned
    filt                \* the latest filter application: its operands and result

vars == <<searchpath, cached, _file_client, _close_file_client, opts_file_roots,
          entered, clients, globals, files, fetches, uptodate, calls, last, filt>>

----------------------------------------------------------------------------
(* Bounds of the model.                                                    *)

MaxCalls == 2
MaxElem == 2
MaxLen == 3
MaxTupleLen == 1
MaxLifeCalls == 4
MaxMtime == 2
MaxClients == 3

----------------------------------------------------------------------------
(* Strings.                                                                *)

EmptyStr == <<>>
CurDir == <<".">>
ParDir == <<".", ".">>
RootStr == <<"/">>

StartsWith(s, c) == Len(s) > 0 /\ s[1] = c

EndsWith(s, c) == Len(s) > 0 /\ s[Len(s)] = c

RECURSIVE SplitSlash(_)
SplitSlash(s) ==
    IF \A i \in 1..Len(s) : s[i] # "/"
    THEN <<s>>
    ELSE LET i == CHOOSE k \in 1..Len(s) :
                      s[k] = "/" /\ \A j \in 1..(k - 1) : s[j] # "/"
         IN  <<SubSeq(s, 1, i - 1)>> \o SplitSlash(SubSeq(s, i + 1, Len(s)))

FirstSegment(s) == SplitSlash(s)[1]

RECURSIVE JoinSlash(_)
JoinSlash(segs) ==
    IF segs = <<>> THEN EmptyStr
    ELSE IF Len(segs) = 1 THEN segs[1]
    ELSE segs[1] \o <<"/">> \o JoinSlash(Tail(segs))

ReplaceSlashByDot(s) == [i \in 1..Len(s) |-> IF s[i] = "/" THEN "." ELSE s[i]]

NonEmptySegs(segs) == SelectSeq(segs, LAMBDA c : c # EmptyStr)

isabs(s) == StartsWith(s, "/")

RECURSIVE NormComps(_, _, _)
NormComps(comps, new_comps, initial_slashes) ==
    IF comps = <<>> THEN new_comps
    ELSE LET comp == Head(comps)
             n == Len(new_comps)
         IN  IF comp = EmptyStr \/ comp = CurDir
             THEN NormComps(Tail(comps), new_comps, initial_slashes)
             ELSE IF comp # ParDir
                     \/ (initial_slashes = 0 /\ n = 0)
                     \/ (n > 0 /\ new_comps[n] = ParDir)
             THEN NormComps(Tail(comps), Append(new_comps, comp), initial_slashes)
             ELSE IF n > 0
             THEN NormComps(Tail(comps), SubSeq(new_comps, 1, n - 1), initial_slashes)
             ELSE NormComps(Tail(comps), new_comps, initial_slashes)

normpath(path) ==
    IF path = EmptyStr THEN CurDir
    ELSE LET initial_slashes ==
                 IF ~StartsWith(path, "/") THEN 0
                 ELSE IF Len(path) >= 2 /\ path[2] = "/"
                         /\ ~(Len(path) >= 3 /\ path[3] = "/")
                 THEN 2 ELSE 1
             joined == JoinSlash(NormComps(SplitSlash(path), <<>>, initial_slashes))
             res == [i \in 1..initial_slashes |-> "/"] \o joined
         IN  IF res = EmptyStr THEN CurDir ELSE res

RECURSIVE RStripSlash(_)
RStripSlash(s) ==
    IF EndsWith(s, "/") THEN RStripSlash(SubSeq(s, 1, Len(s) - 1)) ELSE s

dirname(p) ==
    LET slashes == {k \in 1..Len(p) : p[k] = "/"}
        i == IF slashes = {} THEN 0
             ELSE CHOOSE k \in slashes : \A j \in slashes : j <= k
        head == SubSeq(p, 1, i)
    IN  IF head # EmptyStr /\ \E k \in 1..Len(head) : head[k] # "/"
        THEN RStripSlash(head)
        ELSE head

pathjoin(a, b) ==
    IF StartsWith(b, "/") THEN b
    ELSE IF a = EmptyStr \/ EndsWith(a, "/") THEN a \o b
    ELSE a \o <<"/">> \o b

abspath(path, wd) == normpath(IF isabs(path) THEN path ELSE pathjoin(wd, path))

RECURSIVE CommonLen(_, _)
CommonLen(l1, l2) ==
    IF l1 = <<>> \/ l2 = <<>> \/ Head(l1) # Head(l2) THEN 0
    ELSE 1 + CommonLen(Tail(l1), Tail(l2))

relpath(path, start, wd) ==
    LET start_list == NonEmptySegs(SplitSlash(abspath(start, wd)))
        path_list == NonEmptySegs(SplitSlash(abspath(path, wd)))
        i == CommonLen(start_list, path_list)
        rel_list == [k \in 1..(Len(start_list) - i) |-> ParDir]
                        \o SubSeq(path_list, i + 1, Len(path_list))
    IN  IF rel_list = <<>> THEN CurDir ELSE JoinSlash(rel_list)

----------------------------------------------------------------------------
(* The filesystem.  A location is the list of directory names leading to   *)
(* a file or directory; the directories are fixed, the files come and go.  *)

DirR == <<"r">>
DirS == <<"s">>
DirA == <<"a">>
FileX == <<"x">>

Dirs == { <<>>, <<DirR>>, <<DirS>>, <<DirR, DirA>> }

FileUniverse == { <<DirR, FileX>>, <<DirS, FileX>>, <<FileX>> }

NoEnt == [ok |-> FALSE, loc |-> <<>>, isdir |-> FALSE]

RECURSIVE Walk(_, _, _)
Walk(cur, comps, fs) ==
    IF comps = <<>> THEN [ok |-> TRUE, loc |-> cur, isdir |-> TRUE]
    ELSE LET comp == Head(comps)
             nxt == Append(cur, comp)
         IN  IF comp = EmptyStr \/ comp = CurDir THEN Walk(cur, Tail(comps), fs)
             ELSE IF comp = ParDir
             THEN Walk(IF cur = <<>> THEN cur ELSE SubSeq(cur, 1, Len(cur) - 1),
                       Tail(comps), fs)
             ELSE IF nxt \in Dirs THEN Walk(nxt, Tail(comps), fs)
             ELSE IF nxt \in FileUniverse /\ fs[nxt] > 0 /\ Tail(comps) = <<>>
             THEN [ok |-> TRUE, loc |-> nxt, isdir |-> FALSE]
             ELSE NoEnt

\* stat(path) by a process whose working directory is wd
Stat(path, wd, fs) ==
    IF path = EmptyStr THEN NoEnt
    ELSE Walk(IF isabs(path) THEN <<>> ELSE NonEmptySegs(SplitSlash(wd)),
              SplitSlash(path), fs)

exists(path, wd, fs) == Stat(path, wd, fs).ok

\* fopen(path, "rb"): an OSError unless path names a regular file
CanOpen(path, wd, fs) == Stat(path, wd, fs).ok /\ ~Stat(path, wd, fs).isdir

----------------------------------------------------------------------------
(* The inputs the model draws from.                                        *)

NoKey == <<"<no key>">>
Local == <<"local">>
OtherValue == <<"v">>

Name_x == <<"x">>
Name_a_x == <<"a", "/", "x">>
Name_a_up_up_x == <<"a", "/", ".", ".", "/", ".", ".", "/", "x">>
Name_dot_x == <<".", "/", "x">>
Name_up_x == <<".", ".", "/", "x">>

Names == {EmptyStr, Name_x, Name_a_x, Name_a_up_up_x, Name_dot_x, Name_up_x}

RootR == <<"/", "r">>
RootS == <<"/", "s">>

SearchPaths == { <<>>, <<RootR>>, <<RootR, RootS>> }

InitialTpldirs == {NoKey, CurDir, DirA, RootR}

\* The working directory of the process: relative paths are looked up from it
cwd == RootStr

GlobalKeys == {"tplfile", "tpldir", "tpldot", "opts", "other"}

\* get_file returns False, or the path of the cached file
FetchReturns == {"False", "path"}

NewClient(hd, roots) ==
    [hasOpts |-> TRUE, file_roots |-> roots, hasDestroy |-> hd,
     destroyed |-> 0, external |-> FALSE]

ExternalClients ==
    { [hasOpts |-> v[1], file_roots |-> v[2], hasDestroy |-> TRUE,
       destroyed |-> 0, external |-> TRUE] :
          v \in { <<TRUE, 1>>, <<TRUE, 2>>, <<FALSE, 1>> } }

NoCallback == [set |-> FALSE, filepath |-> EmptyStr, mtime |-> 0]

NoCall ==
    [op |-> "init", template |-> EmptyStr, environment |-> FALSE,
     rejected |-> FALSE, path |-> EmptyStr, fetched |-> FALSE, ret |-> "",
     created |-> FALSE, raised |-> "", exc_name |-> EmptyStr,
     found |-> FALSE, root |-> 0, filepath |-> EmptyStr, contents |-> <<>>,
     mtime |-> 0, tried |-> 0, result |-> FALSE, torn |-> 0, client |-> 0]

----------------------------------------------------------------------------
(* Python values, as the filters tell them apart.                          *)

PyValue(t, v) == [type |-> t, val |-> v]

None == PyValue("NoneType", 0)
True == PyValue("bool", TRUE)
False == PyValue("bool", FALSE)

\* An exception leaving the filter
TypeError == PyValue("TypeError", 0)

SeqsUpTo(S, n) == UNION { [1..k -> S] : k \in 0..n }

Range(s) == { s[i] : i \in 1..Len(s) }

\* The operands of the docstring examples
my_list == <<1, 2, 3, 4>>
other_list == <<2, 4, 6>>

\* Strings are sequences of characters
StrVals ==
    { <<"y", "e", "s">>, <<"Y", "e", "s">>, <<"Y", "E", "S">>, <<"1">>,
      <<"t", "r", "u", "e">>, <<"T", "r", "u", "e">>, <<"T", "R", "U", "E">>,
      <<"n", "o">>, <<"0">>, <<"y">>, <<"o", "n">>, <<"y", "e", "s", " ">>, <<>> }

IntVals == {-1, 0, 1, 2}

\* Floats in halves: -1.5, 0.0, 0.5, 1.5
FloatVals == {-3, 0, 1, 3}

\* Dicts by their keys
DictVals == { {}, {1} }

Lists ==
    { PyValue("list", l) : l \in SeqsUpTo(1..MaxElem, MaxLen) \cup {my_list, other_list} }

Tuples == { PyValue("tuple", l) : l \in SeqsUpTo(1..MaxElem, MaxTupleLen) }

Sets == { PyValue("set", e) : e \in SUBSET (1..MaxElem) }

Collections == Lists \cup Tuples \cup Sets

Scalars ==
    {None, True, False}
    \cup { PyValue("str", w) : w \in StrVals }
    \cup { PyValue("int", n) : n \in IntVals }
    \cup { PyValue("float", h) : h \in FloatVals }
    \cup { PyValue("dict", d) : d \in DictVals }

NoFilter == [op |-> "none", a |-> None, b |-> None, out |-> None]

\* isinstance(v, Hashable): list, set and dict define no __hash__
Hashable(v) == v.type \notin {"list", "set", "dict"}

IsCollection(v) == v.type \in {"list", "tuple", "set"}

\* len(v)
len(v) == IF v.type \in {"set", "dict"} THEN Cardinality(v.val) ELSE Len(v.val)

\* The elements of a collection: set(v), and what 'in' tests against
Elems(v) == IF v.type = "set" THEN v.val ELSE Range(v.val)

\* The orders in which 'for' can visit a collection
IterOrders(v) ==
    IF v.type = "set"
    THEN { o \in [1..Cardinality(v.val) -> v.val] :
             \A i, j \in 1..Cardinality(v.val) : o[i] = o[j] => i = j }
    ELSE { v.val }

\* str.lower, one character
LowerChar(c) ==
    CASE c = "Y" -> "y"
      [] c = "E" -> "e"
      [] c = "S" -> "s"
      [] c = "T" -> "t"
      [] c = "R" -> "r"
      [] c = "U" -> "u"
      [] OTHER -> c

lower(w) == [i \in 1..Len(w) |-> LowerChar(w[i])]

TrueWords == { <<"y", "e", "s">>, <<"1">>, <<"t", "r", "u", "e">> }

----------------------------------------------------------------------------
(* SaltCacheLoader.                                                        *)

\* SaltCacheLoader.__init__, with the environment and the files it meets
Construct(sp, ext, g, fs) ==
    /\ searchpath = sp
    /\ cached = <<>>
    /\ opts_file_roots = 1
    /\ clients = ext
    /\ _file_client = Len(ext)
    /\ _close_file_client = (ext = <<>>)
    /\ entered = FALSE
    /\ globals = g
    /\ files = fs
    /\ fetches = [p \in {} |-> <<>>]
    /\ uptodate = NoCallback
    /\ calls = 0
    /\ last = NoCall

InitialGlobals(d, o) ==
    [k \in GlobalKeys |->
        IF k = "tpldir" THEN d
        ELSE IF k = "opts" THEN o
        ELSE IF k = "other" THEN OtherValue
        ELSE NoKey]

\* A loader that creates its own file client, over any files and any importing template
Init ==
    \E sp \in SearchPaths, d \in InitialTpldirs, o \in {NoKey, Local},
       fs \in [FileUniverse -> {0, 1}] :
        /\ o = Local => d = RootR
        /\ Construct(sp, <<>>, InitialGlobals(d, o), fs)
        /\ filt = NoFilter

\* SaltCacheLoader.file_client
NeedsNewClient ==
    \/ _file_client = 0
    \/ ~clients[_file_client].hasOpts
    \/ clients[_file_client].file_roots # opts_file_roots

\* file_client that opens a new client on every call
file_client_always_creates(hd) ==
    [clients |-> Append(clients, NewClient(hd, opts_file_roots)),
     ref |-> Len(clients) + 1, close |-> TRUE, created |-> TRUE]

\* file_client that takes up the client it created last when it holds none
file_client_reuses_destroyed(hd) ==
    IF _file_client = 0 /\ clients # <<>>
    THEN [clients |-> clients, ref |-> Len(clients),
          close |-> _close_file_client, created |-> FALSE]
    ELSE IF NeedsNewClient
    THEN [clients |-> Append(clients, NewClient(hd, opts_file_roots)),
          ref |-> Len(clients) + 1, close |-> TRUE, created |-> TRUE]
    ELSE [clients |-> clients, ref |-> _file_client,
          close |-> _close_file_client, created |-> FALSE]

file_client(hd) ==
    IF NeedsNewClient
    THEN [clients |-> Append(clients, NewClient(hd, opts_file_roots)),
          ref |-> Len(clients) + 1, close |-> TRUE, created |-> TRUE]
    ELSE [clients |-> clients, ref |-> _file_client,
          close |-> _close_file_client, created |-> FALSE]

InCached(template, c) == \E i \in 1..Len(c) : c[i] = template

\* check_cache that forgets what it fetched
check_cache_never_records(template, ret, hd) ==
    [fetched |-> TRUE, fc |-> file_client(hd), cached |-> cached, files |-> files]

\* check_cache that records a template whatever get_file returned
check_cache_records_failures(template, ret, hd) ==
    IF ~InCached(template, cached)
    THEN [fetched |-> TRUE, fc |-> file_client(hd),
          cached |-> Append(cached, template), files |-> files]
    ELSE [fetched |-> FALSE,
          fc |-> [clients |-> clients, ref |-> _file_client,
                  close |-> _close_file_client, created |-> FALSE],
          cached |-> cached, files |-> files]

\* SaltCacheLoader.check_cache
check_cache(template, ret, hd) ==
    IF ~InCached(template, cached)
    THEN LET fc == file_client(hd)
         IN  [fetched |-> TRUE, fc |-> fc,
              cached |-> IF ret # "False" THEN Append(cached, template) ELSE cached,
              files |-> files]
    ELSE [fetched |-> FALSE,
          fc |-> [clients |-> clients, ref |-> _file_client,
                  close |-> _close_file_client, created |-> FALSE],
          cached |-> cached, files |-> files]

is_relative(template) == FirstSegment(template) \in {ParDir, CurDir}

\* get_source without the check that the joined path stays below salt://
ResolveTemplate_no_escape_check(environment, template, g) ==
    IF ~is_relative(template) THEN [rejected |-> FALSE, path |-> template]
    ELSE IF ~environment \/ g["tpldir"] = NoKey
    THEN [rejected |-> TRUE, path |-> template]
    ELSE LET base_path == g["tpldir"]
             joined == normpath(base_path \o <<"/">> \o template)
         IN  IF g["opts"] = Local /\ isabs(base_path)
             THEN [rejected |-> FALSE, path |-> relpath(joined, base_path, cwd)]
             ELSE [rejected |-> FALSE, path |-> joined]

\* get_source, lines 132-160: the path that is fetched and read, or a rejection
ResolveTemplate(environment, template, g) ==
    IF ~is_relative(template) THEN [rejected |-> FALSE, path |-> template]
    ELSE IF ~environment \/ g["tpldir"] = NoKey
    THEN [rejected |-> TRUE, path |-> template]
    ELSE LET base_path == g["tpldir"]
             joined == normpath(base_path \o <<"/">> \o template)
         IN  IF FirstSegment(joined) = ParDir
             THEN [rejected |-> TRUE, path |-> joined]
             ELSE IF g["opts"] = Local /\ isabs(base_path)
             THEN [rejected |-> FALSE, path |-> relpath(joined, base_path, cwd)]
             ELSE [rejected |-> FALSE, path |-> joined]

ReplaceBackslash(s) == [i \in 1..Len(s) |-> IF s[i] = "\\" THEN "/" ELSE s[i]]

\* The update skipped for a relative import
TplData_skips_relative(environment, template, path, g) ==
    IF environment /\ template # EmptyStr /\ ~is_relative(template)
    THEN [g EXCEPT !["tplfile"] = path,
                   !["tpldir"] = IF dirname(path) = EmptyStr THEN CurDir ELSE dirname(path),
                   !["tpldot"] = ReplaceSlashByDot(dirname(path))]
    ELSE g

\* The update that takes tpldir from the resolved path for every name
TplData_dirname_always(environment, template, path, g) ==
    IF environment /\ template # EmptyStr
    THEN [g EXCEPT !["tplfile"] = IF is_relative(template) THEN template ELSE path,
                   !["tpldir"] = IF dirname(path) = EmptyStr THEN CurDir ELSE dirname(path),
                   !["tpldot"] = ReplaceSlashByDot(dirname(path))]
    ELSE g

\* The update that keeps the importing template's tpldir for every name
TplData_keeps_tpldir_always(environment, template, path, g) ==
    IF environment /\ template # EmptyStr
    THEN LET tpldir == IF g["tpldir"] # NoKey THEN g["tpldir"] ELSE dirname(path)
         IN  [g EXCEPT !["tplfile"] = IF is_relative(template) THEN template ELSE path,
                       !["tpldir"] = IF tpldir = EmptyStr THEN CurDir ELSE tpldir,
                       !["tpldot"] = ReplaceSlashByDot(tpldir)]
    ELSE g

\* get_source, lines 164-175: the update of environment.globals
TplData(environment, template, path, g) ==
    IF environment /\ template # EmptyStr
    THEN LET tpldir == IF is_relative(template) /\ g["tpldir"] # NoKey
                       THEN g["tpldir"]
                       ELSE ReplaceBackslash(dirname(path))
             tplfile == IF is_relative(template) THEN template ELSE path
         IN  [g EXCEPT !["tplfile"] = tplfile,
                       !["tpldir"] = IF tpldir = EmptyStr THEN CurDir ELSE tpldir,
                       !["tpldot"] = ReplaceSlashByDot(tpldir)]
    ELSE g

\* The search that lets the last root win
ReadFrom_last_root_wins(i, path, fs) ==
    LET opens == {k \in i..Len(searchpath) :
                     CanOpen(pathjoin(searchpath[k], path), cwd, fs)}
    IN  IF opens = {}
        THEN [found |-> FALSE, root |-> 0, filepath |-> EmptyStr, contents |-> <<>>,
              mtime |-> 0, tried |-> Len(searchpath)]
        ELSE LET k == CHOOSE m \in opens : \A n \in opens : n <= m
                 filepath == pathjoin(searchpath[k], path)
                 st == Stat(filepath, cwd, fs)
             IN  [found |-> TRUE, root |-> k, filepath |-> filepath,
                  contents |-> st.loc, mtime |-> fs[st.loc], tried |-> Len(searchpath)]

\* get_source, lines 179-195: the first search root under which the file opens
RECURSIVE ReadFrom(_, _, _)
ReadFrom(i, path, fs) ==
    IF i > Len(searchpath)
    THEN [found |-> FALSE, root |-> 0, filepath |-> EmptyStr, contents |-> <<>>,
          mtime |-> 0, tried |-> Len(searchpath)]
    ELSE LET filepath == pathjoin(searchpath[i], path)
             st == Stat(filepath, cwd, fs)
         IN  IF st.ok /\ ~st.isdir
             THEN [found |-> TRUE, root |-> i, filepath |-> filepath,
                   contents |-> st.loc, mtime |-> fs[st.loc], tried |-> i]
             ELSE ReadFrom(i + 1, path, fs)

NotRead ==
    [found |-> FALSE, root |-> 0, filepath |-> EmptyStr, contents |-> <<>>,
     mtime |-> 0, tried |-> 0]

\* SaltCacheLoader.get_source.  The values computed once in the code (the
\* resolved path, the cache check, the read) are bound once with \E x \in {e}.
GetSource(environment, template, ret, hd) ==
    /\ calls' = calls + 1
    /\ \E r \in {ResolveTemplate(environment, template, globals)} :
           IF r.rejected
           THEN /\ last' = [NoCall EXCEPT !.op = "get_source",
                                          !.template = template,
                                          !.environment = environment,
                                          !.rejected = TRUE,
                                          !.raised = "TemplateNotFound",
                                          !.exc_name = template]
                /\ UNCHANGED <<searchpath, cached, _file_client, _close_file_client,
                               opts_file_roots, entered, clients, globals, files,
                               fetches, uptodate>>
           ELSE \E cc \in {check_cache(r.path, ret, hd)} :
                \E rd \in {IF InCached(r.path, cc.cached) \/ exists(r.path, cwd, cc.files)
                          THEN ReadFrom(1, r.path, cc.files)
                          ELSE NotRead} :
                LET g1 == TplData(environment, template, r.path, globals)
                IN  /\ Len(cc.fc.clients) <= MaxClients
                    /\ cached' = cc.cached
                    /\ files' = cc.files
                    /\ clients' = cc.fc.clients
                    /\ _file_client' = cc.fc.ref
                    /\ _close_file_client' = cc.fc.close
                    /\ fetches' = IF ~cc.fetched THEN fetches
                                  ELSE IF r.path \in DOMAIN fetches
                                  THEN [fetches EXCEPT ![r.path] = Append(@, ret)]
                                  ELSE [p \in DOMAIN fetches \cup {r.path} |->
                                           IF p = r.path THEN <<ret>> ELSE fetches[p]]
                    /\ globals' = g1
                    /\ uptodate' = IF rd.found
                                   THEN [set |-> TRUE, filepath |-> rd.filepath,
                                         mtime |-> rd.mtime]
                                   ELSE uptodate
                    /\ last' = [NoCall EXCEPT
                                   !.op = "get_source",
                                   !.template = template,
                                   !.environment = environment,
                                   !.path = r.path,
                                   !.fetched = cc.fetched,
                                   !.ret = IF cc.fetched THEN ret ELSE "",
                                   !.created = cc.fc.created,
                                   !.client = IF cc.fetched THEN cc.fc.ref ELSE 0,
                                   !.raised = IF rd.found THEN "" ELSE "TemplateNotFound",
                                   !.exc_name = IF rd.found THEN EmptyStr ELSE template,
                                   !.found = rd.found,
                                   !.root = rd.root,
                                   !.filepath = rd.filepath,
                                   !.contents = rd.contents,
                                   !.mtime = rd.mtime,
                                   !.tried = rd.tried]
                    /\ UNCHANGED <<searchpath, opts_file_roots, entered>>

\* destroy that tears down whatever file client the loader holds
destroy_ignores_ownership(op) ==
    /\ calls' = calls + 1
    /\ IF _file_client = 0
       THEN /\ last' = [NoCall EXCEPT !.op = op]
            /\ UNCHANGED <<_file_client, clients>>
       ELSE /\ _file_client' = 0
            /\ clients' = IF clients[_file_client].hasDestroy
                          THEN [clients EXCEPT ![_file_client].destroyed = @ + 1]
                          ELSE clients
            /\ last' = [NoCall EXCEPT !.op = op, !.torn = _file_client]
    /\ UNCHANGED <<searchpath, cached, _close_file_client, opts_file_roots, globals,
                   files, fetches, uptodate>>

\* destroy that tears the client down and keeps the reference to it
destroy_keeps_reference(op) ==
    /\ calls' = calls + 1
    /\ IF _close_file_client = FALSE \/ _file_client = 0
       THEN /\ last' = [NoCall EXCEPT !.op = op]
            /\ UNCHANGED <<_file_client, clients>>
       ELSE /\ UNCHANGED _file_client
            /\ clients' = IF clients[_file_client].hasDestroy
                          THEN [clients EXCEPT ![_file_client].destroyed = @ + 1]
                          ELSE clients
            /\ last' = [NoCall EXCEPT !.op = op, !.torn = _file_client]
    /\ UNCHANGED <<searchpath, cached, _close_file_client, opts_file_roots, globals,
                   files, fetches, uptodate>>

\* destroy that also forgets what was fetched
destroy_clears_cache(op) ==
    /\ calls' = calls + 1
    /\ cached' = <<>>
    /\ IF _close_file_client = FALSE \/ _file_client = 0
       THEN /\ last' = [NoCall EXCEPT !.op = op]
            /\ UNCHANGED <<_file_client, clients>>
       ELSE /\ _file_client' = 0
            /\ clients' = IF clients[_file_client].hasDestroy
                          THEN [clients EXCEPT ![_file_client].destroyed = @ + 1]
                          ELSE clients
            /\ last' = [NoCall EXCEPT !.op = op, !.torn = _file_client]
    /\ UNCHANGED <<searchpath, _close_file_client, opts_file_roots, globals,
                   files, fetches, uptodate>>

\* SaltCacheLoader.destroy
destroy(op) ==
    /\ calls' = calls + 1
    /\ IF _close_file_client = FALSE \/ _file_client = 0
       THEN /\ last' = [NoCall EXCEPT !.op = op]
            /\ UNCHANGED <<_file_client, clients>>
       ELSE /\ _file_client' = 0
            /\ clients' = IF clients[_file_client].hasDestroy
                          THEN [clients EXCEPT ![_file_client].destroyed = @ + 1]
                          ELSE clients
            /\ last' = [NoCall EXCEPT !.op = op, !.torn = _file_client]
    /\ UNCHANGED <<searchpath, cached, _close_file_client, opts_file_roots, globals,
                   files, fetches, uptodate>>

Destroy ==
    /\ destroy("destroy")
    /\ UNCHANGED entered

\* SaltCacheLoader.__enter__
Enter(hd) ==
    /\ ~entered
    /\ entered' = TRUE
    /\ calls' = calls + 1
    /\ LET fc == file_client(hd)
       IN  /\ Len(fc.clients) <= MaxClients
           /\ clients' = fc.clients
           /\ _file_client' = fc.ref
           /\ _close_file_client' = fc.close
           /\ last' = [NoCall EXCEPT !.op = "enter", !.created = fc.created]
    /\ UNCHANGED <<searchpath, cached, opts_file_roots, globals, files, fetches,
                   uptodate>>

\* SaltCacheLoader.__exit__
Exit ==
    /\ entered
    /\ entered' = FALSE
    /\ destroy("exit")

\* The callback without its except clause: a missing file raises
Uptodate_without_except ==
    /\ uptodate.set
    /\ LET st == Stat(uptodate.filepath, cwd, files)
       IN  last' = [NoCall EXCEPT
                       !.op = "uptodate",
                       !.filepath = uptodate.filepath,
                       !.raised = IF st.ok THEN "" ELSE "OSError",
                       !.result = st.ok /\ files[st.loc] = uptodate.mtime]
    /\ UNCHANGED <<searchpath, cached, _file_client, _close_file_client,
                   opts_file_roots, entered, clients, globals, files, fetches,
                   uptodate, calls>>

\* The callback get_source returned, invoked by the template cache
Uptodate ==
    /\ uptodate.set
    /\ LET st == Stat(uptodate.filepath, cwd, files)
       IN  last' = [NoCall EXCEPT
                       !.op = "uptodate",
                       !.filepath = uptodate.filepath,
                       !.result = IF st.ok
                                  THEN (IF st.isdir THEN 1 ELSE files[st.loc]) = uptodate.mtime
                                  ELSE FALSE]
    /\ UNCHANGED <<searchpath, cached, _file_client, _close_file_client,
                   opts_file_roots, entered, clients, globals, files, fetches,
                   uptodate, calls>>

\* Another process, or the file client, writes a file under the roots
WriteFile(loc) ==
    /\ files[loc] < MaxMtime
    /\ files' = [files EXCEPT ![loc] = @ + 1]
    /\ calls' = calls + 1
    /\ last' = [NoCall EXCEPT !.op = "write"]
    /\ UNCHANGED <<searchpath, cached, _file_client, _close_file_client,
                   opts_file_roots, entered, clients, globals, fetches, uptodate>>

\* Another process removes a file
DeleteFile(loc) ==
    /\ files[loc] > 0
    /\ files' = [files EXCEPT ![loc] = 0]
    /\ calls' = calls + 1
    /\ last' = [NoCall EXCEPT !.op = "delete"]
    /\ UNCHANGED <<searchpath, cached, _file_client, _close_file_client,
                   opts_file_roots, entered, clients, globals, fetches, uptodate>>

\* The caller changes opts["file_roots"], as the pillar renderer does
ChangeFileRoots ==
    /\ opts_file_roots' = 3 - opts_file_roots
    /\ calls' = calls + 1
    /\ last' = [NoCall EXCEPT !.op = "file_roots"]
    /\ UNCHANGED <<searchpath, cached, _file_client, _close_file_client, entered,
                   clients, globals, files, fetches, uptodate>>

----------------------------------------------------------------------------
(* Spec: template resolution.  Any name, with or without an environment,   *)
(* against any files, by a loader that creates its own file client.        *)

Next ==
    \/ /\ calls < MaxCalls
       /\ \E environment \in BOOLEAN, template \in Names, ret \in FetchReturns :
             GetSource(environment, template, ret, TRUE)
       /\ UNCHANGED filt
    \/ /\ calls < MaxCalls
       /\ Destroy
       /\ UNCHANGED filt
    \/ /\ calls < MaxCalls
       /\ \E loc \in FileUniverse : WriteFile(loc)
       /\ UNCHANGED filt
    \/ /\ calls < MaxCalls
       /\ \E loc \in FileUniverse : DeleteFile(loc)
       /\ UNCHANGED filt
    \/ /\ Uptodate
       /\ UNCHANGED filt

Spec == Init /\ [][Next]_vars

----------------------------------------------------------------------------
(* LifeSpec: the life of the file client.  A loader constructed with or    *)
(* without a file client, fetching two templates, entered, left and        *)
(* destroyed in any order while the caller may change file_roots.          *)

LifeNames == {Name_x, Name_a_x}

LifeInit ==
    \E ext \in {<<>>} \cup { <<c>> : c \in ExternalClients } :
        /\ Construct(<<RootR, RootS>>, ext, InitialGlobals(CurDir, NoKey),
                     [loc \in FileUniverse |-> 1])
        /\ filt = NoFilter

LifeNext ==
    \/ /\ calls < MaxLifeCalls
       /\ \E template \in LifeNames, ret \in FetchReturns, hd \in BOOLEAN :
             GetSource(TRUE, template, ret, hd)
       /\ UNCHANGED filt
    \/ /\ calls < MaxLifeCalls
       /\ Destroy
       /\ UNCHANGED filt
    \/ /\ calls < MaxLifeCalls
       /\ \E hd \in BOOLEAN : Enter(hd)
       /\ UNCHANGED filt
    \/ /\ calls < MaxLifeCalls
       /\ Exit
       /\ UNCHANGED filt
    \/ /\ calls < MaxLifeCalls
       /\ ChangeFileRoots
       /\ UNCHANGED filt

LifeSpec == LifeInit /\ [][LifeNext]_vars

----------------------------------------------------------------------------
(* The filters to_bool, unique, union, intersect, difference and           *)
(* symmetric_difference, applied to operands drawn at the start.           *)

to_bool(val) ==
    IF val.type = "NoneType" THEN FALSE
    ELSE IF val.type = "bool" THEN val.val
    ELSE IF val.type = "str" THEN lower(val.val) \in TrueWords
    ELSE IF val.type = "int" THEN val.val > 0
    ELSE IF ~Hashable(val) THEN len(val) > 0
    ELSE FALSE

\* The loop of unique: append what is not yet in ret
RECURSIVE UniqueLoop(_, _)
UniqueLoop(values, ret) ==
    IF values = <<>> THEN ret
    ELSE UniqueLoop(Tail(values),
                    IF Head(values) \in Range(ret) THEN ret
                    ELSE Append(ret, Head(values)))

\* unique(values), visiting values in the order o
unique(values, o) ==
    IF Hashable(values) THEN PyValue("set", Elems(values))
    ELSE PyValue("list", UniqueLoop(o, <<>>))

\* lst1 + lst2
Concat(lst1, lst2) ==
    IF lst1.type = lst2.type /\ lst1.type \in {"list", "tuple"}
    THEN PyValue(lst1.type, lst1.val \o lst2.val)
    ELSE TypeError

union(lst1, lst2) ==
    IF Hashable(lst1) /\ Hashable(lst2)
    THEN PyValue("set", Elems(lst1) \cup Elems(lst2))
    ELSE IF Concat(lst1, lst2) = TypeError THEN TypeError
    ELSE unique(Concat(lst1, lst2), Concat(lst1, lst2).val)

\* intersect(lst1, lst2), visiting lst1 in the order o
intersect(lst1, lst2, o) ==
    IF Hashable(lst1) /\ Hashable(lst2)
    THEN PyValue("set", Elems(lst1) \cap Elems(lst2))
    ELSE unique(PyValue("list", SelectSeq(o, LAMBDA ele : ele \in Elems(lst2))),
                SelectSeq(o, LAMBDA ele : ele \in Elems(lst2)))

\* difference that keeps what it should drop
difference_keeps_common(lst1, lst2, o) ==
    IF Hashable(lst1) /\ Hashable(lst2)
    THEN PyValue("set", Elems(lst1) \cap Elems(lst2))
    ELSE unique(PyValue("list", SelectSeq(o, LAMBDA ele : ele \in Elems(lst2))),
                SelectSeq(o, LAMBDA ele : ele \in Elems(lst2)))

\* difference(lst1, lst2), visiting lst1 in the order o
difference(lst1, lst2, o) ==
    IF Hashable(lst1) /\ Hashable(lst2)
    THEN PyValue("set", Elems(lst1) \ Elems(lst2))
    ELSE unique(PyValue("list", SelectSeq(o, LAMBDA ele : ele \notin Elems(lst2))),
                SelectSeq(o, LAMBDA ele : ele \notin Elems(lst2)))

\* symmetric_difference(lst1, lst2), visiting lst1 in the order o; union returns
\* a list or raises here, because one operand is not Hashable
symmetric_difference(lst1, lst2, o) ==
    IF Hashable(lst1) /\ Hashable(lst2)
    THEN PyValue("set", (Elems(lst1) \ Elems(lst2)) \cup (Elems(lst2) \ Elems(lst1)))
    ELSE IF union(lst1, lst2) = TypeError THEN TypeError
    ELSE unique(PyValue("list",
                    SelectSeq(union(lst1, lst2).val,
                              LAMBDA ele : ele \notin Elems(intersect(lst1, lst2, o)))),
                SelectSeq(union(lst1, lst2).val,
                          LAMBDA ele : ele \notin Elems(intersect(lst1, lst2, o))))

loaderVars == <<searchpath, cached, _file_client, _close_file_client, opts_file_roots,
                entered, clients, globals, files, fetches, uptodate, calls, last>>

Applied(op, out) ==
    /\ filt' = [filt EXCEPT !.op = op, !.out = out]
    /\ UNCHANGED loaderVars

ToBool == Applied("to_bool", PyValue("bool", to_bool(filt.a)))

Unique ==
    /\ IsCollection(filt.a)
    /\ \E o \in IterOrders(filt.a) : Applied("unique", unique(filt.a, o))

Union ==
    /\ IsCollection(filt.a)
    /\ Applied("union", union(filt.a, filt.b))

Intersect ==
    /\ IsCollection(filt.a)
    /\ \E o \in IterOrders(filt.a) : Applied("intersect", intersect(filt.a, filt.b, o))

Difference ==
    /\ IsCollection(filt.a)
    /\ \E o \in IterOrders(filt.a) : Applied("difference", difference(filt.a, filt.b, o))

SymmetricDifference ==
    /\ IsCollection(filt.a)
    /\ \E o \in IterOrders(filt.a) :
          Applied("symmetric_difference", symmetric_difference(filt.a, filt.b, o))

\* Any value as the first operand, any collection as the second
FilterInit ==
    \E a \in Scalars \cup Collections, b \in Collections :
        /\ Construct(<<RootR>>, <<>>, InitialGlobals(CurDir, NoKey),
                     [loc \in FileUniverse |-> 1])
        /\ filt = [op |-> "none", a |-> a, b |-> b, out |-> None]

FilterNext ==
    \/ ToBool
    \/ Unique
    \/ Union
    \/ Intersect
    \/ Difference
    \/ SymmetricDifference

FilterSpec == FilterInit /\ [][FilterNext]_vars

----------------------------------------------------------------------------
(* The claims.                                                             *)

\* A step that is a call of get_source (every operation sets last and counts)
IsGetSourceStep == last'.op = "get_source" /\ calls' = calls + 1

IsDestroyStep == last'.op \in {"destroy", "exit"} /\ calls' = calls + 1

\* The search roots under which path opens as a file
OpenableRoots(path) ==
    {i \in 1..Len(searchpath) : CanOpen(pathjoin(searchpath[i], path), cwd, files)}

TplKeys == {"tplfile", "tpldir", "tpldot"}

IsPrefix(p, l) == Len(p) <= Len(l) /\ SubSeq(l, 1, Len(p)) = p

\* The location a search root names
RootLoc(spath) == NonEmptySegs(SplitSlash(spath))

\* C1 as claimed: get_file is invoked at most once for each resolved path,
\* whatever it returned.
C1_FetchedAtMostOnce ==
    \A p \in DOMAIN fetches : Len(fetches[p]) <= 1

\* C1 as amended: once get_file has returned something other than False for a
\* path, it is never invoked for that path again, so at most one fetch of a path
\* succeeds; a fetch that returned False is not remembered.
C1_NoFetchAfterSuccess ==
    \A p \in DOMAIN fetches :
        \A i \in 1..Len(fetches[p]) : fetches[p][i] # "False" => i = Len(fetches[p])

\* C1 witness: a template fetched with success is resolved again without a fetch.
C1_Witness ==
    /\ last.op = "get_source"
    /\ ~last.rejected
    /\ ~last.fetched
    /\ last.path \in DOMAIN fetches
    /\ fetches[last.path][Len(fetches[last.path])] = "path"

\* C2 as claimed: the file a successful get_source returns lies under one of the
\* search roots.
C2_FileUnderSomeRoot ==
    (last.op = "get_source" /\ last.found) =>
        \E i \in 1..Len(searchpath) : IsPrefix(RootLoc(searchpath[i]), last.contents)

\* C3: a get_source rejected in relative-path handling (a name starting with '.'
\* or '..', and no environment, no tpldir, or a joined path that starts with
\* '..') raises TemplateNotFound and changes nothing: no fetch, no read, no new
\* file client, the same cached list, the same globals.
C3_RejectedChangesNothing ==
    [][(/\ IsGetSourceStep
        /\ FirstSegment(last'.template) \in {CurDir, ParDir}
        /\ \/ ~last'.environment
           \/ globals["tpldir"] = NoKey
           \/ FirstSegment(normpath(globals["tpldir"] \o <<"/">> \o last'.template))
                  = ParDir)
       => /\ last'.raised = "TemplateNotFound"
          /\ last'.exc_name = last'.template
          /\ ~last'.fetched /\ ~last'.found /\ last'.tried = 0 /\ ~last'.created
          /\ UNCHANGED <<cached, clients, _file_client, _close_file_client, globals,
                         files, fetches, uptodate>>]_vars

\* C3 witness: with an environment that has a tpldir, a relative name was
\* rejected because it climbs out.
C3_Witness ==
    /\ last.op = "get_source"
    /\ last.rejected
    /\ last.environment
    /\ globals["tpldir"] # NoKey

\* C4: when get_file returns False and the path opens under no search root,
\* get_source raises TemplateNotFound with the name it was called with, having
\* gone on after the failed fetch (the globals are written), and the path
\* is not in the cached list.
C4_FailedFetchIsNotFound ==
    (/\ last.op = "get_source"
     /\ last.fetched
     /\ last.ret = "False"
     /\ OpenableRoots(last.path) = {})
    => /\ last.raised = "TemplateNotFound"
       /\ last.exc_name = last.template
       /\ ~InCached(last.path, cached)
       /\ (last.environment /\ last.template # EmptyStr)
              => globals["tplfile"] \in {last.template, last.path}

\* C4 witness: the failed fetch of a relative name, whose path is not its name.
C4_Witness ==
    /\ last.op = "get_source"
    /\ last.fetched
    /\ last.ret = "False"
    /\ OpenableRoots(last.path) = {}
    /\ last.path # last.template
    /\ last.raised = "TemplateNotFound"

\* The read step is reached: the path is cached or exists
ReadStepReached ==
    /\ last.op = "get_source"
    /\ ~last.rejected
    /\ InCached(last.path, cached) \/ exists(last.path, cwd, files)

\* C5: when get_source reaches the read step, the result is that of the first
\* search root, in the configured order, under which the file opens; the roots
\* before it are skipped, and with no such root the call raises TemplateNotFound.
C5_FirstRootWins ==
    ReadStepReached =>
        IF OpenableRoots(last.path) = {}
        THEN last.raised = "TemplateNotFound" /\ ~last.found
        ELSE LET first == CHOOSE i \in OpenableRoots(last.path) :
                              \A j \in OpenableRoots(last.path) : i <= j
             IN  /\ last.found
                 /\ last.raised = ""
                 /\ last.root = first
                 /\ last.filepath = pathjoin(searchpath[first], last.path)
                 /\ last.contents = Stat(last.filepath, cwd, files).loc

\* C5 witness: the file is under two roots and the first one is returned.
C5_Witness ==
    /\ ReadStepReached
    /\ Cardinality(OpenableRoots(last.path)) >= 2
    /\ last.root = 1

\* The file the latest callback watches is gone
BackingFileGone ==
    /\ last.op = "uptodate"
    /\ ~exists(last.filepath, cwd, files)

\* C6 as claimed: once the backing file is deleted, the callback returns true.
C6_ReturnsTrueWhenDeleted ==
    BackingFileGone => last.result = TRUE

\* C6 as amended: once the backing file is deleted, the callback returns False
\* (not up to date, which is how jinja is told the template is stale) and does
\* not raise.
C6_ReturnsFalseWhenDeleted ==
    BackingFileGone => (last.result = FALSE /\ last.raised = "")

\* C6 witness: the callback was invoked after its file was deleted.
C6_Witness ==
    BackingFileGone /\ uptodate.set /\ uptodate.mtime > 0

\* C7 as claimed: every get_source with an environment writes tplfile, tpldir
\* and tpldot into the globals before it ends.
C7_AlwaysWritten ==
    (last.op = "get_source" /\ last.environment) =>
        \A k \in TplKeys : globals[k] # NoKey

\* C7 as amended: every get_source with an environment and a non-empty name
\* that is not rejected in relative-path handling writes tplfile, tpldir and
\* tpldot, whether it then succeeds or raises TemplateNotFound; a rejected
\* call writes nothing.
C7_WrittenUnlessRejected ==
    (/\ last.op = "get_source"
     /\ last.environment
     /\ last.template # EmptyStr
     /\ ~last.rejected)
    => /\ \A k \in TplKeys : globals[k] # NoKey
       /\ globals["tplfile"] = IF FirstSegment(last.template) \in {CurDir, ParDir}
                               THEN last.template ELSE last.path

\* C7 witness: a relative name that resolved and was not found: the keys are there.
C7_Witness ==
    /\ last.op = "get_source"
    /\ last.environment
    /\ ~last.rejected
    /\ FirstSegment(last.template) \in {CurDir, ParDir}
    /\ last.raised = "TemplateNotFound"
    /\ globals["tplfile"] = last.template

\* A get_source that writes the globals
WritesGlobals ==
    /\ last.op = "get_source"
    /\ last.environment
    /\ last.template # EmptyStr
    /\ ~last.rejected

\* C8 as claimed: after a get_source that writes the globals, for relative and
\* other names alike, tpldir is the directory of the resolved path ('.' when it
\* is empty) and tpldot is that directory with '/' replaced by '.'; tplfile is
\* the resolved path, or the name when it is relative.
C8_TpldirOfResolvedPath ==
    WritesGlobals =>
        /\ globals["tplfile"] = IF FirstSegment(last.template) \in {CurDir, ParDir}
                                THEN last.template ELSE last.path
        /\ globals["tpldir"] = IF dirname(last.path) = EmptyStr THEN CurDir
                               ELSE dirname(last.path)
        /\ globals["tpldot"] = ReplaceSlashByDot(dirname(last.path))

\* C8 as amended: after a get_source that writes the globals, tplfile is the
\* resolved path, or the name when it is relative.  For a name that is not
\* relative, tpldir is the directory of the resolved path ('.' when it is empty)
\* and tpldot is that directory (before '.' stands in for empty) with '/'
\* replaced by '.'.  For a relative name, tpldir keeps the value it had before
\* the call, the importing template's directory, and tpldot is that value with
\* '/' replaced by '.'.
C8_TpldirKeptForRelative ==
    [][(/\ IsGetSourceStep
        /\ last'.environment
        /\ last'.template # EmptyStr
        /\ ~last'.rejected)
       => /\ globals'["tplfile"] =
                 IF FirstSegment(last'.template) \in {CurDir, ParDir}
                 THEN last'.template ELSE last'.path
          /\ IF FirstSegment(last'.template) \in {CurDir, ParDir}
             THEN /\ globals'["tpldir"] = globals["tpldir"]
                  /\ globals'["tpldot"] = ReplaceSlashByDot(globals["tpldir"])
             ELSE /\ globals'["tpldir"] = IF dirname(last'.path) = EmptyStr
                                          THEN CurDir ELSE dirname(last'.path)
                  /\ globals'["tpldot"] = ReplaceSlashByDot(dirname(last'.path))]_vars

\* C8 witness: a relative name whose resolved path lies in another directory
\* than the importing template.
C8_Witness ==
    /\ WritesGlobals
    /\ FirstSegment(last.template) \in {CurDir, ParDir}
    /\ globals["tpldir"] # (IF dirname(last.path) = EmptyStr THEN CurDir
                            ELSE dirname(last.path))

\* C9: for a name whose first segment is neither '.' nor '..', get_source is
\* decided without the prior tpldir: the resolved path is the name, the fetch
\* happens exactly when the name is not yet cached, the call succeeds exactly
\* when the read step is reached and some root has the file, and the three keys
\* written are functions of the name alone; every other key of the globals is
\* left as it was.
C9_NonRelativeIgnoresTpldir ==
    [][(IsGetSourceStep /\ FirstSegment(last'.template) \notin {CurDir, ParDir})
       => LET name == last'.template
          IN  /\ last'.path = name
              /\ last'.fetched = ~InCached(name, cached)
              /\ last'.found = (/\ InCached(name, cached') \/ exists(name, cwd, files)
                                /\ OpenableRoots(name) # {})
              /\ \A k \in GlobalKeys \ TplKeys : globals'[k] = globals[k]
              /\ IF last'.environment /\ name # EmptyStr
                 THEN /\ globals'["tplfile"] = name
                      /\ globals'["tpldir"] = IF dirname(name) = EmptyStr
                                              THEN CurDir ELSE dirname(name)
                      /\ globals'["tpldot"] = ReplaceSlashByDot(dirname(name))
                 ELSE globals' = globals]_vars

\* C9 witness: a plain name imported from a template in /r: tpldir was
\* overwritten, nothing of it was used.
C9_Witness ==
    /\ last.op = "get_source"
    /\ last.template = Name_a_x
    /\ last.environment
    /\ globals["opts"] = Local
    /\ globals["tpldir"] = DirA
    /\ calls = 1

\* C10 as claimed: for a loader constructed with a file client, destroy is
\* always a no-op: no client is torn down and the loader's reference stays.
C10_DestroyAlwaysNoOp ==
    [][(IsDestroyStep /\ Len(clients) >= 1 /\ clients[1].external)
       => UNCHANGED <<clients, _file_client>>]_vars

\* C10 as amended: for a loader constructed with a file client, destroy never
\* tears that client down, and it is a no-op (no teardown, the reference
\* unchanged) as long as the loader still holds that client; once file_client()
\* has replaced it (it lacks 'opts' or its file_roots differ), destroy tears
\* down the replacement the loader created.
C10_DestroyNoOpOnSuppliedClient ==
    [][/\ (IsDestroyStep /\ _file_client # 0 /\ clients[_file_client].external)
          => UNCHANGED <<clients, _file_client>>
       /\ \A i \in 1..Len(clients') :
             clients'[i].external => clients'[i].destroyed = 0]_vars

\* C10 witness: destroy after a fetch through the supplied client, still held.
C10_Witness ==
    /\ last.op = "destroy"
    /\ _file_client # 0
    /\ clients[_file_client].external
    /\ DOMAIN fetches # {}

IsEnterStep == last'.op = "enter" /\ calls' = calls + 1

\* The loader holds a file client it created itself
HoldsOwnClient == _file_client # 0 /\ ~clients[_file_client].external

\* C11: destroy of a loader holding a file client it created tears that client
\* down exactly once (a client without a destroy method is skipped without
\* error) and clears the reference; a destroy that finds no reference, as a
\* second destroy does, tears nothing down.
C11_DestroyTearsDownOnce ==
    [][IsDestroyStep
       => /\ last'.raised = ""
          /\ HoldsOwnClient
                => /\ _file_client' = 0
                   /\ last'.torn = _file_client
                   /\ clients[_file_client].destroyed = 0
                   /\ clients' = IF clients[_file_client].hasDestroy
                                 THEN [clients EXCEPT ![_file_client].destroyed = 1]
                                 ELSE clients
          /\ _file_client = 0 => UNCHANGED <<clients, _file_client>>]_vars

\* C11 witness: a second destroy, after the one that tore the loader's client down.
C11_Witness ==
    /\ last.op = "destroy"
    /\ last.torn = 0
    /\ _file_client = 0
    /\ \E i \in 1..Len(clients) : ~clients[i].external /\ clients[i].destroyed = 1

\* C12 as claimed: a loader constructed without a file client holds one from
\* __enter__ on, and after __exit__ every client it ever created has been torn
\* down, one replaced because file_roots changed included.
C12_ExitTearsDownEveryClient ==
    (\A i \in 1..Len(clients) : ~clients[i].external)
    => /\ last.op = "enter" => _file_client # 0
       /\ last.op = "exit" =>
             \A i \in 1..Len(clients) :
                 clients[i].hasDestroy => clients[i].destroyed >= 1

\* C16: no file client is created at construction, by a get_source of a cached
\* path, or by destroy; a fetch or __enter__ creates one exactly when the
\* reference is empty, the held client has no 'opts', or its file_roots differ
\* from the loader's, and marks it as the loader's own; otherwise the fetch goes
\* through the client already held.
C16_ClientCreatedLazilyAndReused ==
    [][/\ calls = 0 => \A i \in 1..Len(clients) : clients[i].external
       /\ (IsGetSourceStep /\ InCached(last'.path, cached)) => ~last'.fetched
       /\ IF (IsGetSourceStep /\ last'.fetched) \/ IsEnterStep
          THEN IF NeedsNewClient
               THEN /\ Len(clients') = Len(clients) + 1
                    /\ SubSeq(clients', 1, Len(clients)) = clients
                    /\ _file_client' = Len(clients')
                    /\ _close_file_client' = TRUE
                    /\ ~clients'[_file_client'].external
                    /\ clients'[_file_client'].file_roots = opts_file_roots
                    /\ last'.created
                    /\ IsGetSourceStep => last'.client = _file_client'
               ELSE /\ UNCHANGED <<clients, _file_client, _close_file_client>>
                    /\ ~last'.created
                    /\ IsGetSourceStep => last'.client = _file_client
          ELSE Len(clients') = Len(clients)]_vars

\* C16 witness: a second fetch went through the client the first fetch created.
C16_Witness ==
    /\ last.op = "get_source"
    /\ last.fetched
    /\ ~last.created
    /\ last.client = 1
    /\ ~clients[1].external
    /\ Len(clients) = 1
    /\ Cardinality(DOMAIN fetches) = 2

NoDuplicates(c) == \A i, j \in 1..Len(c) : c[i] = c[j] => i = j

\* C17: under get_source, destroy, __enter__ and __exit__ the cached list only
\* grows, never holds a path twice, and holds a path only if some get_file for
\* it returned something other than False.
C17_CachedOnlyGrows ==
    [][/\ IsPrefix(cached, cached')
       /\ NoDuplicates(cached')
       /\ \A i \in 1..Len(cached') :
             /\ cached'[i] \in DOMAIN fetches'
             /\ \E j \in 1..Len(fetches'[cached'[i]]) :
                   fetches'[cached'[i]][j] # "False"]_vars

\* C17 witness: destroy tore the client down and both fetched paths are still cached.
C17_Witness ==
    /\ last.op \in {"destroy", "exit"}
    /\ last.torn # 0
    /\ Len(cached) = 2

\* C18: get_file is never invoked on a client the loader has torn down: a fetch
\* goes through the client the loader holds after file_client(), which destroy
\* has not touched; after destroy the reference is empty, so the next fetch
\* creates a client of the loader's own, and the next destroy tears that one down.
C18_NoFetchThroughDestroyedClient ==
    [][/\ (IsGetSourceStep /\ last'.fetched)
          => /\ last'.client = _file_client'
             /\ last'.client \in 1..Len(clients')
             /\ clients'[last'.client].destroyed = 0
       /\ (IsGetSourceStep /\ last'.fetched /\ _file_client = 0)
          => /\ Len(clients') = Len(clients) + 1
             /\ last'.client = Len(clients')
             /\ ~clients'[last'.client].external
             /\ _close_file_client'
       /\ (IsDestroyStep /\ HoldsOwnClient)
          => /\ last'.torn = _file_client
             /\ _file_client' = 0]_vars

\* C18 witness: fetch, destroy, fetch through a fresh client, destroy of that one.
C18_Witness ==
    /\ last.op = "destroy"
    /\ last.torn = 2
    /\ Len(clients) = 2
    /\ \A i \in 1..2 : ~clients[i].external /\ clients[i].destroyed = 1
    /\ \E p \in DOMAIN fetches : Len(fetches[p]) = 2

\* What the claim counts as true
ClaimedTrue(v) ==
    \/ v.type = "bool" /\ v.val
    \/ v.type = "str" /\ lower(v.val) \in TrueWords
    \/ v.type \in {"int", "float"} /\ v.val > 0
    \/ v.type \in {"list", "tuple", "set", "dict"} /\ len(v) > 0

\* C13 as claimed: to_bool returns true exactly for the boolean true, a string
\* equal ignoring case to 'yes', '1' or 'true', a number greater than zero and
\* a non-empty container, and false for everything else.
C13_ToBoolTruthTable ==
    filt.op = "to_bool" => (filt.out.val <=> ClaimedTrue(filt.a))

FirstIndex(l, e) == CHOOSE i \in 1..Len(l) : l[i] = e /\ \A j \in 1..(i - 1) : l[j] # e

\* out holds each element of l once, in the order of first occurrence in l
IsFirstOccurrences(out, l) ==
    /\ NoDuplicates(out)
    /\ Range(out) = Range(l)
    /\ \A i, j \in 1..Len(out) : i < j => FirstIndex(l, out[i]) < FirstIndex(l, out[j])

TwoListsOrTwoSets == filt.a.type = filt.b.type /\ filt.a.type \in {"list", "set"}

\* C14 as claimed: unique of a list keeps the first occurrence of each element
\* in input order; union, intersect and difference of two lists or of two sets
\* return, without error, a collection whose elements are exactly the union,
\* the intersection and the difference (first minus second) of the operands.
C14_ListFiltersComputeSetOperations ==
    /\ (filt.op = "unique" /\ filt.a.type = "list")
          => filt.out.type = "list" /\ IsFirstOccurrences(filt.out.val, filt.a.val)
    /\ (filt.op \in {"union", "intersect", "difference"} /\ TwoListsOrTwoSets)
          => /\ filt.out # TypeError
             /\ Elems(filt.out) =
                   CASE filt.op = "union" -> Elems(filt.a) \cup Elems(filt.b)
                     [] filt.op = "intersect" -> Elems(filt.a) \cap Elems(filt.b)
                     [] filt.op = "difference" -> Elems(filt.a) \ Elems(filt.b)

DocstringOperands ==
    /\ filt.a.type = "list" /\ filt.a.val = my_list
    /\ filt.b.type = "list" /\ filt.b.val = other_list

====
